---- MODULE Spec2Model ----
(***************************************************************************)
(* Model of the flag quiz: the game engine (src/src/lib/quiz-engine.js)    *)
(* and the QuizApp component that drives it (src/unnamed/part_000).        *)
(***************************************************************************)
EXTENDS Integers, Sequences, FiniteSets, TLC

VARIABLES
    allCountries,   \* QuizGame.allCountries: the catalog given to the constructor
    questions,      \* QuizGame.questions
    currentIndex,   \* QuizGame.currentIndex
    score,          \* QuizGame.score
    answered,       \* QuizGame.answered
    lastOp,         \* the engine method called last
    lastArg,        \* its argument (continent or selectedCode)
    lastRet,        \* what it returned or threw
    prevScore,      \* score before the engine method called last
    started,        \* a start call has succeeded
    nextCalls,      \* nextQuestion calls since the last successful start
    currentAudio,   \* AudioManager.currentAudio: the id of the tracked Audio element, 0 for null
    audios,         \* the Audio elements that are referenced or playing
    audioOp,        \* the method of AudioManager, stop or play, that ran last
    mounted,        \* the QuizApp component is mounted
    screen,         \* QuizApp state: screen
    lastContinent,  \* QuizApp state: lastContinent
    uiQuestion,     \* QuizApp state: countryName, options, correctCode
    uiSelectedCode, \* QuizApp state: selectedCode
    uiAnswered,     \* QuizApp state: answered
    uiScore,        \* QuizApp state: score
    uiQuestionNumber, \* QuizApp state: questionNumber
    uiTotalQuestions, \* QuizApp state: totalQuestions
    timerRef,       \* timerRef.current: the id setTimeout returned last, 0 for null
    pending,        \* the scheduled callbacks that have neither fired nor been cleared
    timerCount,     \* the number of setTimeout calls so far
    roundNo,        \* the number of rounds startGame has started
    acceptedAnswers \* the index of every question of the round whose answer was accepted

engineVars == <<allCountries, questions, currentIndex, score, answered>>
histVars == <<lastOp, lastArg, lastRet, prevScore, started, nextCalls>>
displayVars == <<uiQuestion, uiSelectedCode, uiAnswered, uiScore,
                 uiQuestionNumber, uiTotalQuestions>>
timerVars == <<timerRef, pending, timerCount>>
audioVars == <<currentAudio, audios, audioOp>>
uiVars == <<audioVars, mounted, screen, lastContinent, displayVars,
            timerVars, roundNo, acceptedAnswers>>
vars == <<engineVars, histVars, uiVars>>

----------------------------------------------------------------------------
(* Program constants *)

QUESTIONS_PER_ROUND == 10
OPTIONS_COUNT == 4

(* Bounds of the model *)

MaxCatalog == 11    \* the largest catalog is the prefix of World of this length
MaxSeed == 1        \* seeds of the random source: 0..MaxSeed
MaxIndex == 11      \* nextQuestion is called while currentIndex < MaxIndex
MaxRounds == 2      \* the page starts a round while fewer than this many were started
LiveCatalog == 8    \* the catalog length of the runs checked for progress

----------------------------------------------------------------------------
(* Values *)

Null == "null"      \* JavaScript null (as a continent argument)

Min(a, b) == IF a < b THEN a ELSE b

Country(code, name, continent) ==
    [code |-> code, name |-> name, continent |-> continent]

\* Country records the catalogs are cut from; the first five are the
\* catalog of the spec's scenario.
World ==
    << Country("ad", "Andorra", "Europe"),
       Country("ae", "United Arab Emirates", "Asia"),
       Country("af", "Afghanistan", "Asia"),
       Country("ag", "Antigua and Barbuda", "North America"),
       Country("al", "Albania", "Europe"),
       Country("am", "Armenia", "Asia"),
       Country("aq", "Antarctica", "Antarctica"),
       Country("az", "Azerbaijan", "Asia"),
       Country("at", "Austria", "Europe"),
       Country("ax", "Aland Islands", "Europe"),
       Country("ao", "Angola", "Africa"),
       Country("ar", "Argentina", "South America"),
       Country("as", "American Samoa", "Oceania"),
       Country("au", "Australia", "Oceania"),
       Country("aw", "Aruba", "North America"),
       Country("ai", "Anguilla", "North America") >>

Catalog(n) == SubSeq(World, 1, n)

\* Catalog sizes tried: too small for any round (3), the spec's scenario (5),
\* a continent of exactly four countries (8), more than a round holds.
CatalogSizes == {3, 5, 8, MaxCatalog}

Codes(seq) == {seq[i].code : i \in 1..Len(seq)}

\* The continent arguments tried: null, "all", and continent names (of the
\* catalog or not).
Filters == {Null, "all", "Asia", "Europe", "Antarctica"}


(* Return values of the engine's methods, as records of one shape *)

RetVoid == [kind |-> "void", value |-> FALSE, correctCode |-> ""]
RetNull == [kind |-> "null", value |-> FALSE, correctCode |-> ""]
RetBool(b) == [kind |-> "bool", value |-> b, correctCode |-> ""]
RetResult(correct, code) == [kind |-> "result", value |-> correct, correctCode |-> code]
RetThrow(what) == [kind |-> "throw", value |-> FALSE, correctCode |-> what]

NoQuestion == [country |-> Country("", "", ""), options |-> << >>, correctCode |-> ""]

----------------------------------------------------------------------------
(* The random source *)

RandomModulus == 65537

\* Math.random(): the state of the source after one more draw.
NextRandom(s) == (s * 75 + 74) % RandomModulus

\* Math.floor(Math.random() * n) for the draw whose state is s.
RandomIndex(s, n) == (s * n) \div RandomModulus

SeedState(seed) == (seed * 21001 + 12345) % RandomModulus

(* shuffle: Fisher-Yates, in place; i and j are the 0-based indices of the code *)

Swap(array, i, j) ==
    [k \in 1..Len(array) |->
        IF k = i + 1 THEN array[j + 1]
        ELSE IF k = j + 1 THEN array[i + 1]
        ELSE array[k]]

RECURSIVE shuffleLoop(_, _, _)
shuffleLoop(array, i, s) ==
    IF i > 0
    THEN LET r == NextRandom(s)
             j == RandomIndex(r, i + 1)
         IN  shuffleLoop(Swap(array, i, j), i - 1, r)
    ELSE [array |-> array, rng |-> s]

shuffle(array, s) == shuffleLoop(array, Len(array) - 1, s)

slice(array, from, to) == SubSeq(array, from + 1, Min(to, Len(array)))

(* Arrays that are shared or copied: ref names the array object, items its
   contents. An in-place shuffle of an array changes the items every holder
   of the same ref sees. *)

ArrayOf(ref, items) == [ref |-> ref, items |-> items]

\* writing the array itself where the code writes [...array]
spread_alias(array, ref) == array

\* [...array]: a new array object with the same items
spread(array, ref) == ArrayOf(ref, array.items)

(* Question *)

Question(country, options) ==
    [country |-> country, options |-> options, correctCode |-> country.code]

\* an isCorrect that takes the option shown first for the right one
isCorrect_firstOption(question, selectedCode) ==
    selectedCode = question.options[1].code

isCorrect(question, selectedCode) == selectedCode = question.correctCode

(* QuestionGenerator.generate *)

\* a generate that forgets to leave the target out of the distractors
distractorPool_keepsTarget(pool, country) == pool

distractorPool(pool, country) ==
    SelectSeq(pool, LAMBDA c : c.code # country.code)

makeQuestion(pool, country, s) ==
    LET d == shuffle(distractorPool(pool, country), s)
        distractors == slice(d.array, 0, OPTIONS_COUNT - 1)
        o == shuffle(<<country>> \o distractors, d.rng)
    IN  [question |-> Question(country, o.array), rng |-> o.rng]

RECURSIVE mapQuestions(_, _, _, _)
mapQuestions(selected, k, pool, s) ==
    IF k > Len(selected) THEN << >>
    ELSE LET q == makeQuestion(pool, selected[k], s)
         IN  <<q.question>> \o mapQuestions(selected, k + 1, pool, q.rng)

\* a generate that makes a question of every country of the pool
generate_noSlice(pool, count, s) ==
    LET copy == spread(pool, "shuffled")
        shuffled == shuffle(copy.items, s)
        poolItems == IF copy.ref = pool.ref THEN shuffled.array ELSE pool.items
    IN  [questions |-> mapQuestions(shuffled.array, 1, poolItems, shuffled.rng),
         pool |-> ArrayOf(pool.ref, poolItems)]

\* The result carries, next to the questions, the pool array as the call
\* leaves it: shuffle works in place on the array it is given.
generate(pool, count, s) ==
    LET copy == spread(pool, "shuffled")
        shuffled == shuffle(copy.items, s)
        poolItems == IF copy.ref = pool.ref THEN shuffled.array ELSE pool.items
        selected == slice(shuffled.array, 0, count)
    IN  [questions |-> mapQuestions(selected, 1, poolItems, shuffled.rng),
         pool |-> ArrayOf(pool.ref, poolItems)]

----------------------------------------------------------------------------
(* QuizGame *)

\* a start that takes the whole catalog whatever the continent
filterPool_noFilter(continent) == spread(ArrayOf("catalog", allCountries), "pool")

filterPool(continent) ==
    IF continent # Null /\ continent # "" /\ continent # "all"
    THEN ArrayOf("pool", SelectSeq(allCountries, LAMBDA c : c.continent = continent))
    ELSE spread(ArrayOf("catalog", allCountries), "pool")

\* this.allCountries after generate has worked on pool
catalogAfter(pool) == IF pool.ref = "catalog" THEN pool.items ELSE allCountries

isGameOver == currentIndex >= Len(questions)

currentQuestion == IF currentIndex >= Len(questions) THEN NoQuestion
                   ELSE questions[currentIndex + 1]

hasCurrentQuestion == currentIndex < Len(questions)

questionNumber == currentIndex + 1

totalQuestions == Len(questions)

(* QuizGame.continents *)

\* the UTF-16 code units of the continent labels, which the default
\* comparison of Array.prototype.sort compares
codeUnits ==
    ("Africa" :> <<65, 102, 114, 105, 99, 97>>) @@
    ("Antarctica" :> <<65, 110, 116, 97, 114, 99, 116, 105, 99, 97>>) @@
    ("Asia" :> <<65, 115, 105, 97>>) @@
    ("Europe" :> <<69, 117, 114, 111, 112, 101>>) @@
    ("North America" :> <<78, 111, 114, 116, 104, 32, 65, 109, 101, 114, 105, 99, 97>>) @@
    ("Oceania" :> <<79, 99, 101, 97, 110, 105, 97>>) @@
    ("South America" :> <<83, 111, 117, 116, 104, 32, 65, 109, 101, 114, 105, 99, 97>>)

\* a < b for two sequences of code units
RECURSIVE unitsLess(_, _)
unitsLess(a, b) ==
    IF b = << >> THEN FALSE
    ELSE IF a = << >> THEN TRUE
    ELSE IF Head(a) # Head(b) THEN Head(a) < Head(b)
    ELSE unitsLess(Tail(a), Tail(b))

stringLess(x, y) == unitsLess(codeUnits[x], codeUnits[y])

\* [...new Set(array)]: the distinct elements in the order they first occur
RECURSIVE uniqueInOrder(_)
uniqueInOrder(array) ==
    IF array = << >> THEN << >>
    ELSE LET front == uniqueInOrder(SubSeq(array, 1, Len(array) - 1))
             last == array[Len(array)]
         IN  IF \E i \in 1..Len(front) : front[i] = last
             THEN front ELSE Append(front, last)

\* x placed into the sorted array before the first element greater than it
RECURSIVE insertSorted(_, _)
insertSorted(array, x) ==
    IF array = << >> THEN <<x>>
    ELSE IF stringLess(x, Head(array)) THEN <<x>> \o array
    ELSE <<Head(array)>> \o insertSorted(Tail(array), x)

\* Array.prototype.sort() with the default comparison (stable)
RECURSIVE sort(_)
sort(array) ==
    IF array = << >> THEN << >>
    ELSE insertSorted(sort(SubSeq(array, 1, Len(array) - 1)), array[Len(array)])

\* a continents that leaves the labels in the order of the catalog
continentsOf_unsorted(catalog) ==
    SelectSeq(uniqueInOrder([i \in 1..Len(catalog) |-> catalog[i].continent]),
              LAMBDA c : c # "Antarctica")

continentsOf(catalog) ==
    sort(SelectSeq(uniqueInOrder([i \in 1..Len(catalog) |-> catalog[i].continent]),
                   LAMBDA c : c # "Antarctica"))

continents == continentsOf(allCountries)

\* The codes tried as selectedCode: the options shown for the current
\* question and one that is no country's code.
SelectableCodes == Codes(currentQuestion.options) \cup {"zz"}

\* new QuizGame(allCountries)
\* new QuizGame(countries) on the first n countries of World
InitGameOn(n) ==
    /\ allCountries = Catalog(n)
    /\ questions = << >>
    /\ currentIndex = 0
    /\ score = 0
    /\ answered = FALSE
    /\ lastOp = "none"
    /\ lastArg = ""
    /\ lastRet = RetVoid
    /\ prevScore = 0
    /\ started = FALSE
    /\ nextCalls = 0

InitGame == \E n \in CatalogSizes : InitGameOn(n)

\* a start that resets the game before it checks the pool
start_resetsFirst(continent, seed) ==
    LET pool == filterPool(continent) IN
    /\ lastOp' = "start"
    /\ lastArg' = continent
    /\ prevScore' = score
    /\ currentIndex' = 0
    /\ score' = 0
    /\ answered' = FALSE
    /\ IF Len(pool.items) < OPTIONS_COUNT
       THEN /\ lastRet' = RetThrow("Error")
            /\ UNCHANGED <<allCountries, questions, started, nextCalls>>
       ELSE \E round \in {generate(pool, QUESTIONS_PER_ROUND, SeedState(seed))} :
            /\ questions' = round.questions
            /\ lastRet' = RetVoid
            /\ started' = TRUE
            /\ nextCalls' = 0
            /\ allCountries' = catalogAfter(round.pool)

\* a start whose pool check is off by one (<= for <)
start_offByOne(continent, seed) ==
    LET pool == filterPool(continent) IN
    /\ lastOp' = "start"
    /\ lastArg' = continent
    /\ prevScore' = score
    /\ IF Len(pool.items) <= OPTIONS_COUNT
       THEN /\ lastRet' = RetThrow("Error")
            /\ UNCHANGED <<engineVars, started, nextCalls>>
       ELSE \E round \in {generate(pool, QUESTIONS_PER_ROUND, SeedState(seed))} :
            /\ questions' = round.questions
            /\ currentIndex' = 0
            /\ score' = 0
            /\ answered' = FALSE
            /\ lastRet' = RetVoid
            /\ started' = TRUE
            /\ nextCalls' = 0
            /\ allCountries' = catalogAfter(round.pool)

\* a start that forgets to clear the answered latch
start_keepsAnswered(continent, seed) ==
    LET pool == filterPool(continent) IN
    /\ lastOp' = "start"
    /\ lastArg' = continent
    /\ prevScore' = score
    /\ IF Len(pool.items) < OPTIONS_COUNT
       THEN /\ lastRet' = RetThrow("Error")
            /\ UNCHANGED <<engineVars, started, nextCalls>>
       ELSE \E round \in {generate(pool, QUESTIONS_PER_ROUND, SeedState(seed))} :
            /\ questions' = round.questions
            /\ currentIndex' = 0
            /\ score' = 0
            /\ lastRet' = RetVoid
            /\ started' = TRUE
            /\ nextCalls' = 0
            /\ allCountries' = catalogAfter(round.pool)
            /\ UNCHANGED answered

\* a start that forgets to reset the score
start_keepsScore(continent, seed) ==
    LET pool == filterPool(continent) IN
    /\ lastOp' = "start"
    /\ lastArg' = continent
    /\ prevScore' = score
    /\ IF Len(pool.items) < OPTIONS_COUNT
       THEN /\ lastRet' = RetThrow("Error")
            /\ UNCHANGED <<engineVars, started, nextCalls>>
       ELSE \E round \in {generate(pool, QUESTIONS_PER_ROUND, SeedState(seed))} :
            /\ questions' = round.questions
            /\ currentIndex' = 0
            /\ answered' = FALSE
            /\ lastRet' = RetVoid
            /\ started' = TRUE
            /\ nextCalls' = 0
            /\ allCountries' = catalogAfter(round.pool)
            /\ UNCHANGED score

start(continent, seed) ==
    LET pool == filterPool(continent) IN
    /\ lastOp' = "start"
    /\ lastArg' = continent
    /\ prevScore' = score
    /\ IF Len(pool.items) < OPTIONS_COUNT
       THEN /\ lastRet' = RetThrow("Error")
            /\ UNCHANGED <<engineVars, started, nextCalls>>
       ELSE \E round \in {generate(pool, QUESTIONS_PER_ROUND, SeedState(seed))} :
            /\ questions' = round.questions
            /\ currentIndex' = 0
            /\ score' = 0
            /\ answered' = FALSE
            /\ lastRet' = RetVoid
            /\ started' = TRUE
            /\ nextCalls' = 0
            /\ allCountries' = catalogAfter(round.pool)

\* a submitAnswer that takes a point off for a wrong answer
submitAnswer_penalty(selectedCode) ==
    /\ lastOp' = "submitAnswer"
    /\ lastArg' = selectedCode
    /\ prevScore' = score
    /\ UNCHANGED <<allCountries, questions, currentIndex, started, nextCalls>>
    /\ IF answered
       THEN /\ lastRet' = RetNull
            /\ UNCHANGED <<score, answered>>
       ELSE /\ answered' = TRUE
            /\ IF currentIndex >= Len(questions)
               THEN /\ lastRet' = RetThrow("TypeError")
                    /\ UNCHANGED score
               ELSE LET question == questions[currentIndex + 1]
                        correct == isCorrect(question, selectedCode)
                    IN  /\ score' = IF correct THEN score + 1 ELSE score - 1
                        /\ lastRet' = RetResult(correct, question.correctCode)

\* a submitAnswer without the answered latch
submitAnswer_noLatch(selectedCode) ==
    /\ lastOp' = "submitAnswer"
    /\ lastArg' = selectedCode
    /\ prevScore' = score
    /\ UNCHANGED <<allCountries, questions, currentIndex, started, nextCalls>>
    /\ answered' = TRUE
    /\ IF currentIndex >= Len(questions)
       THEN /\ lastRet' = RetThrow("TypeError")
            /\ UNCHANGED score
       ELSE LET question == questions[currentIndex + 1]
                correct == isCorrect(question, selectedCode)
            IN  /\ score' = IF correct THEN score + 1 ELSE score
                /\ lastRet' = RetResult(correct, question.correctCode)

submitAnswer(selectedCode) ==
    /\ lastOp' = "submitAnswer"
    /\ lastArg' = selectedCode
    /\ prevScore' = score
    /\ UNCHANGED <<allCountries, questions, currentIndex, started, nextCalls>>
    /\ IF answered
       THEN /\ lastRet' = RetNull
            /\ UNCHANGED <<score, answered>>
       ELSE /\ answered' = TRUE
            /\ IF currentIndex >= Len(questions)
               THEN \* questions[currentIndex] is undefined: question.isCorrect throws
                    /\ lastRet' = RetThrow("TypeError")
                    /\ UNCHANGED score
               ELSE LET question == questions[currentIndex + 1]
                        correct == isCorrect(question, selectedCode)
                    IN  /\ score' = IF correct THEN score + 1 ELSE score
                        /\ lastRet' = RetResult(correct, question.correctCode)

\* a nextQuestion that clears the latch but forgets to move on
nextQuestion_noAdvance ==
    /\ nextCalls < MaxIndex
    /\ currentIndex' = currentIndex
    /\ answered' = FALSE
    /\ lastOp' = "nextQuestion"
    /\ lastArg' = ""
    /\ lastRet' = RetBool(~(currentIndex' >= Len(questions)))
    /\ prevScore' = score
    /\ nextCalls' = nextCalls + 1
    /\ UNCHANGED <<allCountries, questions, score, started>>

\* a nextQuestion whose end test is off by one (> for >=)
nextQuestion_lateEnd ==
    /\ currentIndex < MaxIndex
    /\ currentIndex' = currentIndex + 1
    /\ answered' = FALSE
    /\ lastOp' = "nextQuestion"
    /\ lastArg' = ""
    /\ lastRet' = RetBool(~(currentIndex' > Len(questions)))
    /\ prevScore' = score
    /\ nextCalls' = nextCalls + 1
    /\ UNCHANGED <<allCountries, questions, score, started>>

nextQuestion ==
    /\ currentIndex < MaxIndex
    /\ currentIndex' = currentIndex + 1
    /\ answered' = FALSE
    /\ lastOp' = "nextQuestion"
    /\ lastArg' = ""
    /\ lastRet' = RetBool(~(currentIndex' >= Len(questions)))
    /\ prevScore' = score
    /\ nextCalls' = nextCalls + 1
    /\ UNCHANGED <<allCountries, questions, score, started>>


----------------------------------------------------------------------------
(* AudioManager *)

sounds == [success |-> "/sounds/success_sound.mp3",
           error |-> "/sounds/error_sound.mp3",
           complete |-> "/sounds/mission_complete_sound.mp3"]

\* String.prototype.toUpperCase on the codes of World
toUpperCase ==
    [ad |-> "AD", ae |-> "AE", af |-> "AF", ag |-> "AG", al |-> "AL",
     am |-> "AM", aq |-> "AQ", az |-> "AZ", at |-> "AT", ax |-> "AX",
     ao |-> "AO", ar |-> "AR", as |-> "AS", au |-> "AU", aw |-> "AW",
     ai |-> "AI"]

\* the outcomes of new Audio(src) followed by audio.play(): the element
\* plays, the play promise rejects and the element stays paused, or the
\* constructor throws
AudioOutcomes == {"playing", "blocked", "unavailable"}

\* new Audio(src): a paused element at full volume; volumes are in tenths
Audio(id, src) == [id |-> id, src |-> src, volume |-> 10, paused |-> TRUE]

\* the manager's field and the elements it has created
manager == [currentAudio |-> currentAudio, audios |-> audios]

\* audio.pause() on the element id
pause(m, id) ==
    [m EXCEPT !.audios =
        {IF a.id = id THEN [a EXCEPT !.paused = TRUE] ELSE a : a \in m.audios}]

\* stop()
stopped(m) ==
    IF m.currentAudio # 0
    THEN [pause(m, m.currentAudio) EXCEPT !.currentAudio = 0]
    ELSE m

\* the identity of a new element: the least id no element of m carries
freshId(m) ==
    CHOOSE id \in 1..(Cardinality(m.audios) + 1) :
        /\ \A a \in m.audios : a.id # id
        /\ \A smaller \in 1..(id - 1) : \E a \in m.audios : a.id = smaller

\* play(src, volume) that forgets to stop the element it tracks
played_noStop(m, src, volume, outcome) ==
    LET id == freshId(m) IN
    IF outcome = "unavailable"
    THEN m
    ELSE [currentAudio |-> id,
          audios |-> m.audios \cup
              {[Audio(id, src) EXCEPT !.volume = volume,
                                      !.paused = (outcome = "blocked")]}]

\* play(src, volume) = 0.5
played(m, src, volume, outcome) ==
    LET s == stopped(m)
        id == freshId(s)
    IN  IF outcome = "unavailable"
        THEN s
        ELSE [currentAudio |-> id,
              audios |-> s.audios \cup
                  {[Audio(id, src) EXCEPT !.volume = volume,
                                          !.paused = (outcome = "blocked")]}]

\* an element that is paused and that the manager no longer references is
\* garbage; one that plays is kept alive. The elements that remain are
\* numbered from 1 in the order they were created.
collected(m) ==
    LET alive == {a \in m.audios : ~a.paused \/ a.id = m.currentAudio}
        number(id) == Cardinality({b \in alive : b.id <= id})
    IN  [currentAudio |-> IF m.currentAudio = 0 THEN 0 ELSE number(m.currentAudio),
         audios |-> {[a EXCEPT !.id = number(a.id)] : a \in alive}]

setManager(m, op) ==
    /\ currentAudio' = collected(m).currentAudio
    /\ audios' = collected(m).audios
    /\ audioOp' = op

stop == setManager(stopped(manager), "stop")

play(src, volume) ==
    \E outcome \in AudioOutcomes :
        setManager(played(manager, src, volume, outcome), "play")

playSound(type) ==
    IF type \in DOMAIN sounds
    THEN play(sounds[type], 5)
    ELSE UNCHANGED audioVars

playCountryName(code) == play("/audio/" \o toUpperCase[code] \o ".mp3", 7)

----------------------------------------------------------------------------
(* QuizApp *)

NoUiQuestion == [countryName |-> "", options |-> << >>, correctCode |-> ""]

InitApp ==
    /\ currentAudio = 0
    /\ audios = {}
    /\ audioOp = "none"
    /\ mounted = TRUE
    /\ screen = "menu"
    /\ lastContinent = "all"
    /\ uiQuestion = NoUiQuestion
    /\ uiSelectedCode = Null
    /\ uiAnswered = FALSE
    /\ uiScore = 0
    /\ uiQuestionNumber = 1
    /\ uiTotalQuestions = 10
    /\ timerRef = 0
    /\ pending = {}
    /\ timerCount = 0
    /\ roundNo = 0
    /\ acceptedAnswers = << >>

Init == InitGame /\ InitApp

\* QuizGame.continents without its sort: the distinct continent labels of
\* the catalog other than "Antarctica"
continentLabels ==
    {allCountries[i].continent : i \in 1..Len(allCountries)} \ {"Antarctica"}

\* the buttons of ContinentSelector
menuChoices == {"all"} \cup continentLabels

\* syncState that leaves the answered flag as it is
syncState_keepsAnswered ==
    IF currentIndex' >= Len(questions')
    THEN UNCHANGED displayVars
    ELSE LET q == questions'[currentIndex' + 1] IN
         /\ uiQuestion' =
                [countryName |-> q.country.name,
                 options |-> [i \in 1..Len(q.options) |->
                                [code |-> q.options[i].code, name |-> q.options[i].name]],
                 correctCode |-> q.correctCode]
         /\ uiScore' = score'
         /\ uiQuestionNumber' = currentIndex' + 1
         /\ uiTotalQuestions' = Len(questions')
         /\ uiSelectedCode' = Null
         /\ UNCHANGED uiAnswered

\* syncState, called after the engine method of the same step
syncState ==
    IF currentIndex' >= Len(questions')
    THEN UNCHANGED displayVars
    ELSE LET q == questions'[currentIndex' + 1] IN
         /\ uiQuestion' =
                [countryName |-> q.country.name,
                 options |-> [i \in 1..Len(q.options) |->
                                [code |-> q.options[i].code, name |-> q.options[i].name]],
                 correctCode |-> q.correctCode]
         /\ uiScore' = score'
         /\ uiQuestionNumber' = currentIndex' + 1
         /\ uiTotalQuestions' = Len(questions')
         /\ uiSelectedCode' = Null
         /\ uiAnswered' = FALSE

startGame(continent, seed) ==
    /\ lastContinent' = continent
    /\ start(continent, seed)
    /\ IF lastRet'.kind = "throw"
       THEN UNCHANGED <<screen, displayVars, roundNo, acceptedAnswers>>
       ELSE /\ syncState
            /\ screen' = "quiz"
            /\ roundNo' = roundNo + 1
            /\ acceptedAnswers' = << >>
    /\ UNCHANGED <<audioVars, mounted, timerVars>>

\* setTimeout(callback, AUTO_ADVANCE_MS): a new id, remembered in timerRef
setAdvanceTimer ==
    /\ timerCount' = timerCount + 1
    /\ timerRef' = timerCount + 1
    /\ pending' = pending \cup {[id |-> timerCount + 1, round |-> roundNo]}

\* handleAnswer that does not copy the engine's score
handleAnswer_noSetScore(code) ==
    IF uiAnswered
    THEN UNCHANGED vars
    ELSE /\ submitAnswer(code)
         /\ UNCHANGED <<mounted, screen, lastContinent, roundNo,
                        uiQuestion, uiQuestionNumber, uiTotalQuestions>>
         /\ IF lastRet'.kind # "result"
            THEN UNCHANGED <<audioVars, uiSelectedCode, uiAnswered, uiScore, timerVars,
                             acceptedAnswers>>
            ELSE /\ uiSelectedCode' = code
                 /\ uiAnswered' = TRUE
                 /\ UNCHANGED uiScore
                 /\ playSound(IF lastRet'.value THEN "success" ELSE "error")
                 /\ setAdvanceTimer
                 /\ acceptedAnswers' = Append(acceptedAnswers, currentIndex)

handleAnswer(code) ==
    IF uiAnswered
    THEN UNCHANGED vars
    ELSE /\ submitAnswer(code)
         /\ UNCHANGED <<mounted, screen, lastContinent, roundNo,
                        uiQuestion, uiQuestionNumber, uiTotalQuestions>>
         /\ IF lastRet'.kind # "result"
            THEN UNCHANGED <<audioVars, uiSelectedCode, uiAnswered, uiScore, timerVars,
                             acceptedAnswers>>
            ELSE /\ uiSelectedCode' = code
                 /\ uiAnswered' = TRUE
                 /\ uiScore' = score'
                 /\ playSound(IF lastRet'.value THEN "success" ELSE "error")
                 /\ setAdvanceTimer
                 /\ acceptedAnswers' = Append(acceptedAnswers, currentIndex)

\* the callback handleAnswer schedules
advance(timer) ==
    /\ timer \in pending
    /\ pending' = pending \ {timer}
    /\ nextQuestion
    /\ UNCHANGED <<mounted, lastContinent, roundNo, acceptedAnswers, timerRef, timerCount>>
    /\ IF lastRet'.value
       THEN /\ syncState
            /\ UNCHANGED <<screen, audioVars>>
       ELSE /\ playSound("complete")
            /\ screen' = "gameover"
            /\ UNCHANGED displayVars

playAudio ==
    /\ IF currentIndex < Len(questions)
       THEN playCountryName(currentQuestion.country.code)
       ELSE UNCHANGED audioVars
    /\ UNCHANGED <<engineVars, histVars, mounted, screen, lastContinent,
                   displayVars, timerVars, roundNo, acceptedAnswers>>

\* the cleanup of the unmount effect
unmountCleanup ==
    /\ mounted' = FALSE
    /\ pending' = IF timerRef # 0 THEN {t \in pending : t.id # timerRef} ELSE pending
    /\ UNCHANGED <<engineVars, histVars, audioVars, screen, lastContinent,
                   displayVars, timerRef, timerCount, roundNo, acceptedAnswers>>

(* The events of the page *)

\* a button of ContinentSelector is clicked
ClickContinent ==
    /\ mounted /\ screen = "menu"
    /\ roundNo < MaxRounds
    /\ \E continent \in menuChoices, seed \in 0..MaxSeed : startGame(continent, seed)

\* an enabled FlagOption is clicked
ClickAnswer ==
    /\ mounted /\ screen = "quiz" /\ ~uiAnswered
    /\ \E i \in 1..Len(uiQuestion.options) : handleAnswer(uiQuestion.options[i].code)

\* the speaker button of QuestionDisplay is clicked
ClickPlayAudio == mounted /\ screen = "quiz" /\ playAudio

\* a replay button that the quiz screen shows too
ClickReplay_anyScreen ==
    /\ mounted /\ screen # "menu"
    /\ roundNo < MaxRounds
    /\ \E seed \in 0..MaxSeed : startGame(lastContinent, seed)

\* "Opnieuw spelen" on the game-over screen
ClickReplay ==
    /\ mounted /\ screen = "gameover"
    /\ roundNo < MaxRounds
    /\ \E seed \in 0..MaxSeed : startGame(lastContinent, seed)

\* a menu button that the quiz screen shows too
ClickMenu_anyScreen ==
    /\ mounted /\ screen # "menu"
    /\ screen' = "menu"
    /\ UNCHANGED <<engineVars, histVars, audioVars, mounted, lastContinent,
                   displayVars, timerVars, roundNo, acceptedAnswers>>

\* "Ander continent" on the game-over screen
ClickMenu ==
    /\ mounted /\ screen = "gameover"
    /\ screen' = "menu"
    /\ UNCHANGED <<engineVars, histVars, audioVars, mounted, lastContinent,
                   displayVars, timerVars, roundNo, acceptedAnswers>>

\* a scheduled callback runs
TimerFires == \E timer \in pending : advance(timer)

Unmount == mounted /\ unmountCleanup

----------------------------------------------------------------------------
(* The engine under any sequence of calls *)

Start ==
    /\ \E continent \in Filters, seed \in 0..MaxSeed : start(continent, seed)
    /\ UNCHANGED uiVars

SubmitAnswer ==
    /\ \E selectedCode \in SelectableCodes : submitAnswer(selectedCode)
    /\ UNCHANGED uiVars

NextQuestion == nextQuestion /\ UNCHANGED uiVars

Next == Start \/ SubmitAnswer \/ NextQuestion

Spec == Init /\ [][Next]_vars

(* The engine as the page drives it *)

UINext ==
    \/ ClickContinent
    \/ ClickAnswer
    \/ ClickPlayAudio
    \/ ClickReplay
    \/ ClickMenu
    \/ TimerFires
    \/ Unmount

UISpec == Init /\ [][UINext]_vars

(* The page with a user who answers every question shown and a clock that
   runs every scheduled callback *)

LiveInit == InitGameOn(LiveCatalog) /\ InitApp

UILiveSpec ==
    LiveInit /\ [][UINext]_vars /\ WF_vars(ClickAnswer) /\ WF_vars(TimerFires)

(* The AudioManager under any sequence of calls *)

nonAudioVars == <<engineVars, histVars, mounted, screen, lastContinent,
                  displayVars, timerVars, roundNo, acceptedAnswers>>

AudioSources == {"/audio/AD.mp3", "/sounds/success_sound.mp3", "/music/theme.mp3"}

Volumes == {0, 5, 10}

SoundTypes == {"success", "error", "complete", "applause"}

Play ==
    /\ \E src \in AudioSources, volume \in Volumes : play(src, volume)
    /\ UNCHANGED nonAudioVars

PlaySound ==
    /\ \E type \in SoundTypes : playSound(type)
    /\ UNCHANGED nonAudioVars

PlayCountryName ==
    /\ \E code \in Codes(allCountries) : playCountryName(code)
    /\ UNCHANGED nonAudioVars

Stop == stop /\ UNCHANGED nonAudioVars

AudioNext == Play \/ PlaySound \/ PlayCountryName \/ Stop

AudioSpec == Init /\ [][AudioNext]_vars

----------------------------------------------------------------------------
(* Properties *)

DistinctCodes(seq) == Cardinality(Codes(seq)) = Len(seq)

\* C1: after a successful start every Question of the round has exactly 4
\* options with pairwise distinct codes, exactly one of which carries the
\* Question's correctCode.
C1_OptionsWellFormed ==
    started =>
        /\ Len(questions) > 0
        /\ \A k \in 1..Len(questions) :
              LET q == questions[k] IN
              /\ Len(q.options) = 4
              /\ DistinctCodes(q.options)
              /\ Cardinality({i \in 1..Len(q.options) :
                                q.options[i].code = q.correctCode}) = 1

C1_Witness ==
    /\ lastOp = "start" /\ lastRet.kind = "void"
    /\ Len(questions) = QUESTIONS_PER_ROUND
    /\ \E k \in 1..Len(questions) :
          questions[k].options[1].code = questions[k].correctCode
    /\ \E k \in 1..Len(questions) :
          questions[k].options[4].code = questions[k].correctCode

\* C2: for a current question not yet answered, submitAnswer returns a
\* result; a second submitAnswer right after it returns null, changes no
\* game state, and the score has changed by at most 1 over both calls.
C2_AtMostOnce ==
    [][ /\ (hasCurrentQuestion /\ ~answered /\ SubmitAnswer)
            => lastRet'.kind = "result"
        /\ (lastOp = "submitAnswer" /\ lastRet.kind = "result" /\ SubmitAnswer)
            => /\ lastRet'.kind = "null"
               /\ UNCHANGED engineVars
               /\ score' - prevScore \in {0, 1} ]_vars

C2_Witness ==
    /\ lastOp = "submitAnswer" /\ lastRet.kind = "null"
    /\ hasCurrentQuestion /\ answered
    /\ lastArg = currentQuestion.correctCode
    /\ score = 0

\* C3: no engine method other than start ever throws.
C3_OnlyStartThrows == lastRet.kind = "throw" => lastOp = "start"

\* the size of the pool a continent argument asks for, counted on the catalog
PoolSizeFor(continent) ==
    IF continent \in {Null, "all"}
    THEN Len(allCountries)
    ELSE Cardinality({i \in 1..Len(allCountries) :
                        allCountries[i].continent = continent})

C5_StartResets ==
    (lastOp = "start" /\ lastRet.kind = "void") =>
        /\ currentIndex = 0
        /\ score = 0
        /\ answered = FALSE
        /\ Len(questions) >= 1
        /\ hasCurrentQuestion
        /\ currentQuestion = questions[1]

C5_Witness ==
    /\ lastOp = "start" /\ lastRet.kind = "void"
    /\ prevScore >= 2
    /\ currentQuestion = questions[1]

\* C6: after a successful start the k-th nextQuestion call returns true and
\* makes question k (0-based) current for k < totalQuestions, and the
\* totalQuestions-th returns false and leaves no current question, whatever
\* submitAnswer calls come in between.
C6_RoundLength ==
    (started /\ lastOp = "nextQuestion" /\ nextCalls <= totalQuestions) =>
        /\ nextCalls < totalQuestions =>
              /\ lastRet = RetBool(TRUE)
              /\ hasCurrentQuestion
              /\ currentQuestion = questions[nextCalls + 1]
        /\ nextCalls = totalQuestions =>
              /\ lastRet = RetBool(FALSE)
              /\ ~hasCurrentQuestion
              /\ currentQuestion = NoQuestion

C6_Witness ==
    /\ started /\ lastOp = "nextQuestion"
    /\ totalQuestions = QUESTIONS_PER_ROUND
    /\ nextCalls = totalQuestions
    /\ score = 3

\* C7: with a current question not yet answered, submitAnswer(selectedCode)
\* sets answered, returns {correct, correctCode} with the question's
\* correctCode and correct true exactly for selectedCode = correctCode, adds
\* 1 to score exactly when correct, and leaves currentIndex alone.
C7_SubmitResult ==
    [][ \A selectedCode \in SelectableCodes :
          (~answered /\ hasCurrentQuestion /\ submitAnswer(selectedCode)) =>
              LET right == selectedCode = currentQuestion.correctCode IN
              /\ answered' = TRUE
              /\ lastRet' = RetResult(right, currentQuestion.correctCode)
              /\ score' = IF right THEN score + 1 ELSE score
              /\ currentIndex' = currentIndex ]_vars

C7_Witness ==
    /\ lastOp = "submitAnswer" /\ lastRet.kind = "result"
    /\ ~lastRet.value /\ lastArg # currentQuestion.correctCode
    /\ currentIndex = 1 /\ score = 1 /\ prevScore = 1

\* C8 as stated: every start and every nextQuestion leaves score as it was.
C8_OnlySubmitChangesScore ==
    lastOp \in {"start", "nextQuestion"} => score = prevScore

\* C8 amended: nextQuestion and a failed start leave score as it was, a
\* successful start sets it to 0, and only submitAnswer raises it.
C8_OnlySubmitRaisesScore ==
    /\ lastOp = "nextQuestion" => score = prevScore
    /\ (lastOp = "start" /\ lastRet.kind = "throw") => score = prevScore
    /\ (lastOp = "start" /\ lastRet.kind = "void") => score = 0
    /\ score > prevScore => lastOp = "submitAnswer"

C8_Witness ==
    /\ lastOp = "start" /\ lastRet.kind = "void"
    /\ prevScore = 4 /\ score = 0

\* C9: at most one auto-advance callback is pending at any time (every
\* setTimeout call adds one, so none is made while one is pending).
C9_OnePendingTimer == Cardinality(pending) <= 1

C9_Witness ==
    /\ Cardinality(pending) = 1
    /\ roundNo = 2
    /\ currentIndex = 1

C11_DistinctTargetsAndLength ==
    /\ started =>
          Cardinality({questions[k].country.code : k \in 1..Len(questions)})
              = Len(questions)
    /\ (lastOp = "start" /\ lastRet.kind = "void") =>
          Len(questions) = Min(10, PoolSizeFor(lastArg))

C11_Witness ==
    /\ lastOp = "start" /\ lastRet.kind = "void" /\ lastArg = Null
    /\ Len(allCountries) > 10
    /\ Len(questions) = 10

\* C12: no submitAnswer and no nextQuestion step lowers currentIndex or
\* score.
C12_MonotoneWithinRound ==
    [][ (SubmitAnswer \/ NextQuestion) =>
            /\ currentIndex' >= currentIndex
            /\ score' >= score ]_vars

C12_Witness ==
    /\ started /\ lastOp = "nextQuestion"
    /\ currentIndex = 3 /\ score = 2

\* C13: continents holds exactly the continent labels of the catalog other
\* than "Antarctica", each once, in ascending order of their code units, and
\* in every state of the game it is what it is for the catalog as supplied.
C13_ContinentsSortedDistinct ==
    /\ {continents[i] : i \in 1..Len(continents)}
          = {allCountries[i].continent : i \in 1..Len(allCountries)} \ {"Antarctica"}
    /\ \A i, j \in 1..Len(continents) : i < j =>
          /\ continents[i] # continents[j]
          /\ unitsLess(codeUnits[continents[i]], codeUnits[continents[j]])
    /\ continents = continentsOf(Catalog(Len(allCountries)))

C13_Witness ==
    /\ lastOp = "nextQuestion" /\ currentIndex = 2 /\ Len(questions) = 4
    /\ \E i \in 1..Len(allCountries) : allCountries[i].continent = "Antarctica"
    /\ continents = <<"Africa", "Asia", "Europe", "North America">>

\* C14: through every start (with its in-place shuffles), submitAnswer and
\* nextQuestion, allCountries is the catalog as supplied, in contents and in
\* order.
C14_CatalogReadOnly == allCountries = Catalog(Len(allCountries))

C14_Witness ==
    /\ lastOp = "submitAnswer" /\ currentIndex = 1
    /\ Len(questions) = 5 /\ Len(allCountries) = 5
    /\ questions[1].country # allCountries[1]
    /\ allCountries = Catalog(5)

\* the catalog records a continent argument lets into the pool
AllowedRecords(continent) ==
    {allCountries[i] : i \in {j \in 1..Len(allCountries) :
        continent \in {Null, "all"} \/ allCountries[j].continent = continent}}

C18_ScoreBounded ==
    /\ 0 <= score
    /\ score <= currentIndex + (IF answered THEN 1 ELSE 0)
    /\ score <= totalQuestions

C18_Witness ==
    /\ lastOp = "submitAnswer" /\ lastRet.kind = "throw"
    /\ started /\ currentIndex > totalQuestions
    /\ score = totalQuestions

\* C19: a start that throws leaves questions, currentIndex, score and
\* answered as they were.
C19_FailedStartChangesNothing ==
    [][ (lastOp' = "start" /\ lastRet'.kind = "throw") =>
            UNCHANGED <<questions, currentIndex, score, answered>> ]_vars

C19_Witness ==
    /\ lastOp = "start" /\ lastRet.kind = "throw"
    /\ started /\ currentIndex = 2 /\ score = 1 /\ answered
    /\ hasCurrentQuestion

\* C17: after any sequence of play, playSound, playCountryName and stop calls
\* at most one element the manager started is not paused, and it is the
\* tracked one; a play has paused the element tracked before it when it
\* starts the new one; after stop no element is tracked.
C17_AtMostOnePlayback ==
    /\ Cardinality({a \in audios : ~a.paused}) <= 1
    /\ \A a \in audios : ~a.paused => a.id = currentAudio
    /\ \A src \in AudioSources, volume \in Volumes, outcome \in AudioOutcomes :
           LET after == played(manager, src, volume, outcome) IN
           /\ after.currentAudio # currentAudio \/ currentAudio = 0
           /\ \A a \in after.audios : a.id = currentAudio => a.paused
    /\ audioOp = "stop" => currentAudio = 0

\* a country name plays, started while a sound effect was playing
C17_Witness ==
    /\ audioOp = "play"
    /\ \E a \in audios :
           /\ a.id = currentAudio /\ ~a.paused
           /\ a.volume = 7 /\ a.src = "/audio/AD.mp3"
    /\ \E a \in audios :
           played(manager, sounds["error"], 5, "playing").audios =
               {[a EXCEPT !.paused = TRUE],
                [Audio(2, sounds["error"]) EXCEPT !.volume = 5, !.paused = FALSE]}

\* C16: when every question shown is answered and every scheduled callback
\* runs, a round that was started reaches the game-over screen for as long as
\* the page stays mounted, and it gets there after exactly totalQuestions
\* accepted answers, one for each question in turn and none skipped.
C16_RoundReachesGameOver ==
    /\ [](screen = "gameover" =>
            acceptedAnswers = [i \in 1..totalQuestions |-> i - 1])
    /\ ((screen = "quiz" /\ mounted) ~> (screen = "gameover" \/ ~mounted))

\* the second round has ended on the game-over screen, every question of it
\* answered
C16_Witness ==
    /\ screen = "gameover"
    /\ roundNo = 2
    /\ Len(acceptedAnswers) = totalQuestions
    /\ totalQuestions >= OPTIONS_COUNT

\* C20: while the game-over screen is shown the round is over in the engine,
\* the score displayed is the engine's score and the total displayed is the
\* engine's totalQuestions.
C20_GameOverMatchesEngine ==
    screen = "gameover" =>
        /\ ~hasCurrentQuestion
        /\ uiScore = score
        /\ uiTotalQuestions = totalQuestions

\* game over after a second round of five questions, three answered right
C20_Witness ==
    /\ screen = "gameover"
    /\ roundNo = 2
    /\ uiScore = 3
    /\ uiTotalQuestions = 5

====
